---- MODULE Spec2Model ----
(***************************************************************************)
(* The BlockDAG framework of core/blockdag/blockdag.go as a state machine. *)
(* The state is the BlockDAG struct; one action per framework operation.   *)
(* Block, HashSet, GraphState and the bound strategy (IBlockDAG) are not   *)
(* part of blockdag.go: they are modelled from the specification.          *)
(***************************************************************************)
EXTENDS Integers, Sequences, FiniteSets, TLC

\* ------------------------------------------------------------------ bounds
\* Number of distinct block hashes (so at most MaxBlocks blocks are accepted).
MaxBlocks == 4
\* Longest declared parent list of an IBlockData.
MaxParents == 2
\* Timestamps (unix seconds) range over 0..MaxTime.
MaxTime == 1
\* Largest tip set of a peer's GraphState.
MaxPeerTips == 2
MaxSortLen == 2
MaxSteps == 8

\* --------------------------------------------------------------- constants
MaxTips == 100

Hashes == 1..MaxBlocks
\* The zero value of a hash / a nil *hash.Hash.
NoHash == 0

VARIABLES
    blocks,      \* bd.blocks: hash -> Block record
    genesis,     \* bd.genesis
    blockTotal,  \* bd.blockTotal
    tips,        \* bd.tips (nil is the empty set)
    lastTime,    \* bd.lastTime
    instance,    \* bd.instance: the dagType of the bound strategy, or nil
    mainTip,     \* state of the bound strategy: hash of its main chain tip
    ret          \* the call the caller has made and not yet taken the result of

vars == <<blocks, genesis, blockTotal, tips, lastTime, instance, mainTip, ret>>
dagVars == <<blocks, genesis, blockTotal, tips, lastTime, instance>>

\* ------------------------------------------------------------ small helpers
Max(a, b) == IF a < b THEN b ELSE a

Range(s) == {s[i] : i \in 1..Len(s)}

SeqsUpTo(S, n) == UNION {[1..k -> S] : k \in 0..n}

\* All orders in which a Go map range may visit the keys of S.
RECURSIVE Perms(_)
Perms(S) ==
    IF S = {} THEN {<<>>}
    ELSE UNION {{<<x>> \o p : p \in Perms(S \ {x})} : x \in S}

\* ------------------------------------------------------------------- Block
\* A Block built without its insertion counter.
NewBlockNoId(id, h) ==
    [id |-> 0, hash |-> h, weight |-> 1, layer |-> 0,
     parents |-> {}, children |-> {}, mainParent |-> NoHash]

\* A Block as built at blockdag.go:147; a nil parents/children set is {}.
NewBlock(id, h) ==
    [id |-> id, hash |-> h, weight |-> 1, layer |-> 0,
     parents |-> {}, children |-> {}, mainParent |-> NoHash]

HasChildren(b) == b.children # {}

HasParents(b) == b.parents # {}

\* ------------------------------------------------------------- IBlockData
NilData == [isNil |-> TRUE, hash |-> NoHash, parents |-> <<>>, timestamp |-> 0]

BlockData(h, ps, t) == [isNil |-> FALSE, hash |-> h, parents |-> ps, timestamp |-> t]

\* ----------------------------------------------------------------- lookups
\* The keys of bd.blocks.
Known == DOMAIN blocks

GetBlockTotal == blockTotal

HasBlock(h) == h # NoHash /\ h \in DOMAIN blocks

\* HasBlocks looking at the first hash only.
HasBlocksFirst(hs) == Len(hs) = 0 \/ HasBlock(hs[1])

HasBlocks(hs) == \A i \in 1..Len(hs) : HasBlock(hs[i])

IsDAG(b) == TRUE

\* Acquire one block by hash (nil when unknown); callers test HasBlock first.
GetBlock(h) == blocks[h]

\* --------------------------------------------------- strategy (IBlockDAG)
\* The bound strategy keeps a main chain: the path from its main tip to the
\* genesis along mainParent.  Blocks in the past of the main tip (and the tip)
\* are ordered, in insertion order; the order of every other block is 0.
RECURSIVE MainChainWalk(_, _, _)
MainChainWalk(blks, h, seen) ==
    IF h = NoHash \/ h \notin DOMAIN blks \/ h \in seen THEN seen
    ELSE MainChainWalk(blks, blks[h].mainParent, seen \cup {h})

MainChainFrom(blks, h) == MainChainWalk(blks, h, {})

RECURSIVE PastClosure(_, _)
PastClosure(blks, S) ==
    LET T == S \cup (UNION {blks[h].parents : h \in S} \cap DOMAIN blks)
    IN IF T = S THEN S ELSE PastClosure(blks, T)

PastOrSelf(blks, h) ==
    IF h = NoHash \/ h \notin DOMAIN blks THEN {} ELSE PastClosure(blks, {h})

\* Block.GetHeight: distance from the genesis along mainParent.
GetHeightIn(blks, h) == Cardinality(MainChainFrom(blks, h)) - 1

\* Block.GetOrder
GetOrderIn(blks, mt, h) ==
    IF h \in PastOrSelf(blks, mt)
    THEN Cardinality({c \in PastOrSelf(blks, mt) : blks[c].id < blks[h].id})
    ELSE 0

\* BlockSlice.Less: by order ascending, then by id.
LessIn(blks, mt, a, b) ==
    \/ GetOrderIn(blks, mt, a) < GetOrderIn(blks, mt, b)
    \/ /\ GetOrderIn(blks, mt, a) = GetOrderIn(blks, mt, b)
       /\ blks[a].id < blks[b].id

\* sort.Sort(BlockSlice) of the blocks S.
RECURSIVE SortIn(_, _, _)
SortIn(blks, mt, S) ==
    IF S = {} THEN <<>>
    ELSE LET m == CHOOSE x \in S : \A y \in S \ {x} : LessIn(blks, mt, x, y)
         IN <<m>> \o SortIn(blks, mt, S \ {m})

IsOnMainChain(h) == h \in MainChainFrom(blocks, mainTip)

GetMainChainTip == mainTip

GetHeight(h) == GetHeightIn(blocks, h)

GetOrder(h) == GetOrderIn(blocks, mainTip, h)

\* IBlockDAG.AddBlock: the main tips the strategy may choose after block h.
StrategyMainTips(h) == IF mainTip = NoHash THEN {h} ELSE {mainTip, h}

\* IBlockDAG.AddBlock: the blocks whose order is newly assigned.
StrategyOrdered(blks, mt) ==
    SortIn(blks, mt, PastOrSelf(blks, mt) \ PastOrSelf(blocks, mainTip))

\* ------------------------------------------------------------ call record
NoGS == [tips |-> {}, layer |-> 0, total |-> 0, mainHeight |-> 0]

NoRet ==
    [op |-> "none", data |-> NilData, h |-> NoHash, gs |-> NoGS, maxHashes |-> 0,
     exclude |-> {}, null |-> FALSE, panic |-> FALSE, list |-> <<>>, set |-> {},
     num |-> 0, order |-> 0, src |-> <<>>, bool |-> FALSE, res |-> NoHash,
     dagType |-> "", pc |-> "done", stack |-> <<>>, queue |-> <<>>,
     anticone |-> {}, steps |-> 0]

\* -------------------------------------------------------------------- Init
\* blockdag.go:9-24
phantom == "phantom"
phantom_v2 == "phantom_v2"
conflux == "conflux"
spectre == "spectre"

\* the nil IBlockDAG
NoInstance == "nil"

\* blockdag.go:40-52: the strategy is identified by its dagType.
NewBlockDAG(dagType) ==
    IF dagType \in {phantom, phantom_v2, conflux, spectre} THEN dagType ELSE NoInstance

\* blockdag.go:115-122: bd.instance.Init(bd) is a method call on what
\* NewBlockDAG returned and panics when that is nil, before lastTime is set.
InitCall(dagType, now) ==
    /\ instance' = NewBlockDAG(dagType)
    /\ IF instance' = NoInstance
       THEN /\ ret' = [NoRet EXCEPT !.op = "Init", !.dagType = dagType, !.panic = TRUE]
            /\ UNCHANGED lastTime
       ELSE /\ ret' = [NoRet EXCEPT !.op = "Init", !.dagType = dagType]
            /\ lastTime' = now
    /\ UNCHANGED <<blocks, genesis, blockTotal, tips, mainTip>>

\* ---------------------------------------------------------------- AddBlock
\* The rejections without the test for a hash already present.
RejectedNoDup(b) ==
    \/ b.isNil
    \/ /\ GetBlockTotal > 0
       /\ (Len(b.parents) = 0 \/ ~HasBlocks(b.parents))
    \/ ~IsDAG(b)

\* blockdag.go:127-145: the rejections, evaluated before any mutation.
Rejected(b) ==
    \/ b.isNil
    \/ HasBlock(b.hash)
    \/ /\ GetBlockTotal > 0
       /\ (Len(b.parents) = 0 \/ ~HasBlocks(b.parents))
    \/ ~IsDAG(b)

\* blockdag.go:133-135: the parents are read only when the DAG is not empty.
DeclaredParents(b) == IF GetBlockTotal > 0 THEN b.parents ELSE <<>>

\* The layer step without the comparison of the layers.
LayerStepFirst(maxLayer, parentLayer) ==
    IF maxLayer = 0 THEN parentLayer ELSE maxLayer

\* blockdag.go:159-161
LayerStep(maxLayer, parentLayer) ==
    IF maxLayer = 0 \/ maxLayer < parentLayer THEN parentLayer ELSE maxLayer

\* The loop over the parents with AddChild inside the k == 0 branch.
RECURSIVE LinkParentsMainOnly(_, _, _)
LinkParentsMainOnly(st, parents, k) ==
    IF k > Len(parents) \/ st.panic THEN st
    ELSE LET h == parents[k] IN
         IF h \notin DOMAIN st.blocks THEN [st EXCEPT !.panic = TRUE]
         ELSE LET parent == st.blocks[h] IN
              LinkParentsMainOnly(
                  [blocks |-> IF k = 1
                              THEN [st.blocks EXCEPT ![h].children = @ \cup {st.block.hash}]
                              ELSE st.blocks,
                   block |-> [st.block EXCEPT
                                 !.parents = @ \cup {h},
                                 !.mainParent = IF k = 1 THEN parent.hash ELSE @],
                   maxLayer |-> LayerStep(st.maxLayer, parent.layer),
                   panic |-> FALSE],
                  parents, k + 1)

\* The loop over the parents with an AddChild that overwrites the children.
RECURSIVE LinkParentsReplace(_, _, _)
LinkParentsReplace(st, parents, k) ==
    IF k > Len(parents) \/ st.panic THEN st
    ELSE LET h == parents[k] IN
         IF h \notin DOMAIN st.blocks THEN [st EXCEPT !.panic = TRUE]
         ELSE LET parent == st.blocks[h] IN
              LinkParentsReplace(
                  [blocks |-> [st.blocks EXCEPT ![h].children = {st.block.hash}],
                   block |-> [st.block EXCEPT
                                 !.parents = @ \cup {h},
                                 !.mainParent = IF k = 1 THEN parent.hash ELSE @],
                   maxLayer |-> LayerStep(st.maxLayer, parent.layer),
                   panic |-> FALSE],
                  parents, k + 1)

\* blockdag.go:151-162: the loop over the parents, from index k on.
\* st = [blocks, block, maxLayer, panic]; GetBlock of an unknown parent is nil
\* and parent.AddChild panics.
RECURSIVE LinkParents(_, _, _)
LinkParents(st, parents, k) ==
    IF k > Len(parents) \/ st.panic THEN st
    ELSE LET h == parents[k] IN
         IF h \notin DOMAIN st.blocks THEN [st EXCEPT !.panic = TRUE]
         ELSE LET parent == st.blocks[h] IN
              LinkParents(
                  [blocks |-> [st.blocks EXCEPT ![h].children = @ \cup {st.block.hash}],
                   block |-> [st.block EXCEPT
                                 !.parents = @ \cup {h},
                                 !.mainParent = IF k = 1 THEN parent.hash ELSE @],
                   maxLayer |-> LayerStep(st.maxLayer, parent.layer),
                   panic |-> FALSE],
                  parents, k + 1)

\* updateTips that never removes a tip.
updateTipsKeep(tipSet, blks, b) == tipSet \cup {b.hash}

\* blockdag.go:258-271
updateTips(tipSet, blks, b) ==
    IF tipSet = {} THEN {b.hash}
    ELSE {k \in tipSet : ~HasChildren(blks[k])} \cup {b.hash}

\* The genesis assignment without its guard.
SetGenesisAlways(total, gen, h) == h

\* blockdag.go:171-173
SetGenesis(total, gen, h) == IF total = 0 THEN h ELSE gen

\* The assignment of lastTime without the Before test.
UpdateLastTimeAssign(last, t) == t

\* blockdag.go:178-181
UpdateLastTime(last, t) == IF last < t THEN t ELSE last

\* blockdag.go:126-184.  bd.instance.CreateBlock (line 169) comes after the
\* loop over the parents and panics on a nil instance.
AddBlock(b) ==
    IF Rejected(b)
    THEN /\ ret' = [NoRet EXCEPT !.op = "AddBlock", !.data = b, !.null = TRUE]
         /\ UNCHANGED <<dagVars, mainTip>>
    ELSE LET parents == DeclaredParents(b)
             st0 == [blocks |-> blocks, block |-> NewBlock(GetBlockTotal, b.hash),
                     maxLayer |-> 0, panic |-> FALSE]
             st == IF Len(parents) > 0 THEN LinkParents(st0, parents, 1) ELSE st0
             block == IF Len(parents) > 0
                      THEN [st.block EXCEPT !.layer = st.maxLayer + 1]
                      ELSE st.block
             blocks1 == [h \in DOMAIN st.blocks \cup {block.hash} |->
                            IF h = block.hash THEN block ELSE st.blocks[h]]
         IN IF st.panic \/ instance = NoInstance
            THEN /\ blocks' = st.blocks
                 /\ ret' = [NoRet EXCEPT !.op = "AddBlock", !.data = b, !.panic = TRUE]
                 /\ UNCHANGED <<genesis, blockTotal, tips, lastTime, instance, mainTip>>
            ELSE /\ blocks' = blocks1
                 /\ instance' = instance
                 /\ genesis' = SetGenesis(GetBlockTotal, genesis, block.hash)
                 /\ blockTotal' = blockTotal + 1
                 /\ tips' = updateTips(tips, blocks1, block)
                 /\ lastTime' = UpdateLastTime(lastTime, b.timestamp)
                 /\ \E mt \in StrategyMainTips(block.hash) :
                       /\ mainTip' = mt
                       /\ ret' = [NoRet EXCEPT !.op = "AddBlock", !.data = b,
                                               !.list = StrategyOrdered(blocks1, mt)]

\* ------------------------------------------------------------ GetFutureSet
\* GetFutureSet that adds the children and does not descend.
FutureSetRunShallow(fs, h) == {fs \cup blocks[h].children}

\* blockdag.go:328-339.  A range over a Go map visits the keys in any order:
\* FutureSetRun(fs, h) is the set of the values fs may have when
\* GetFutureSet(fs, block h) returns, FutureSetLoop that of the loop from the
\* i-th key of one such order.
RECURSIVE FutureSetRun(_, _)
RECURSIVE FutureSetLoop(_, _, _)
FutureSetRun(fs, h) ==
    LET children == blocks[h].children IN
    IF children = {} THEN {fs}
    ELSE UNION {FutureSetLoop(fs, ks, 1) : ks \in Perms(children)}

FutureSetLoop(fs, ks, i) ==
    IF i > Len(ks) THEN {fs}
    ELSE LET k == ks[i] IN
         IF k \in fs THEN FutureSetLoop(fs, ks, i + 1)
         ELSE UNION {FutureSetLoop(fs2, ks, i + 1) :
                        fs2 \in FutureSetRun(fs \cup {k}, k)}

GetFutureSet(h) ==
    \E fs \in FutureSetRun({}, h) :
        /\ ret' = [NoRet EXCEPT !.op = "GetFutureSet", !.h = h, !.set = fs]
        /\ UNCHANGED <<dagVars, mainTip>>

\* ------------------------------------------------------------- GetAnticone
\* The virtual tip test passed by one classified child.
isVirtualTipAny(b, futureSet, anticone, children) ==
    \E k \in children : k # b /\ (k \in futureSet \/ k \in anticone)

\* blockdag.go:447-457
isVirtualTip(b, futureSet, anticone, children) ==
    \A k \in children :
        /\ k # b
        /\ ~(k \notin futureSet /\ k \notin anticone)

\* blockdag.go:460-483.  st = [anticone, panic]; the results of
\* recAnticone(b, futureSet, anticone, h) over the orders of the parent map.
\* The parents of the genesis are a nil set: parents.GetMap() panics.
RECURSIVE recAnticone(_, _, _, _)
RECURSIVE recAnticoneLoop(_, _, _, _, _)
recAnticone(b, futureSet, st, h) ==
    IF st.panic \/ h = b THEN {st}
    ELSE LET node == blocks[h]
             children == node.children
             needRecursion ==
                 IF children = {} THEN TRUE
                 ELSE isVirtualTip(b, futureSet, st.anticone, children)
             st1 == IF h \notin futureSet
                    THEN [st EXCEPT !.anticone = @ \cup {h}]
                    ELSE st
         IN IF ~needRecursion THEN {st}
            ELSE IF node.parents = {} THEN {[st1 EXCEPT !.panic = TRUE]}
            ELSE UNION {recAnticoneLoop(b, futureSet, st1, ks, 1) :
                           ks \in Perms(node.parents)}

recAnticoneLoop(b, futureSet, st, ks, i) ==
    IF i > Len(ks) \/ st.panic THEN {st}
    ELSE UNION {recAnticoneLoop(b, futureSet, st2, ks, i + 1) :
                   st2 \in recAnticone(b, futureSet, st, ks[i])}

\* blockdag.go:487-498: the results of GetAnticone(block b, exclude).
GetAnticoneRun(b, exclude) ==
    LET starts == {[anticone |-> {}, panic |-> FALSE]}
        ends == UNION {UNION {recAnticoneLoop(b, futureSet, st, ks, 1) :
                                 st \in starts, ks \in Perms(tips)} :
                          futureSet \in FutureSetRun({}, b)}
    IN {IF st.panic THEN st ELSE [st EXCEPT !.anticone = @ \ exclude] : st \in ends}

GetAnticone(b, exclude) ==
    \E st \in GetAnticoneRun(b, exclude) :
        /\ ret' = [NoRet EXCEPT !.op = "GetAnticone", !.h = b, !.exclude = exclude,
                                !.set = st.anticone, !.panic = st.panic]
        /\ UNCHANGED <<dagVars, mainTip>>

\* ----------------------------------------------------------- GetGraphState
\* GraphState.IsExcellent: gs is strictly better than other, by main height,
\* then total, then layer, then number of tips; equal states are not better.
IsExcellent(gs, other) ==
    IF gs = other THEN FALSE
    ELSE IF gs.mainHeight # other.mainHeight THEN gs.mainHeight > other.mainHeight
    ELSE IF gs.total # other.total THEN gs.total > other.total
    ELSE IF gs.layer # other.layer THEN gs.layer > other.layer
    ELSE Cardinality(gs.tips) > Cardinality(other.tips)

\* The loop over the tips that keeps the lowest layer.
MinLayerOf(S, m) ==
    IF S = {} THEN m
    ELSE blocks[CHOOSE x \in S : \A y \in S : blocks[x].layer <= blocks[y].layer].layer

RECURSIVE MaxLayerOf(_, _)
MaxLayerOf(S, m) ==
    IF S = {} THEN m
    ELSE LET k == CHOOSE x \in S : TRUE
         IN MaxLayerOf(S \ {k}, IF blocks[k].layer > m THEN blocks[k].layer ELSE m)

\* blockdag.go:364-380 (on a DAG with a main chain tip)
GetGraphState ==
    [tips |-> tips,
     layer |-> MaxLayerOf(tips, 0),
     total |-> GetBlockTotal,
     mainHeight |-> GetHeight(GetMainChainTip)]

\* blockdag.go:364-380: GetMainChainTip() is nil on a DAG without a block and
\* the call of GetHeight on it panics.
GetGraphStateCall ==
    /\ ret' = IF GetMainChainTip = NoHash
              THEN [NoRet EXCEPT !.op = "GetGraphState", !.panic = TRUE]
              ELSE [NoRet EXCEPT !.op = "GetGraphState", !.gs = GetGraphState]
    /\ UNCHANGED <<dagVars, mainTip>>

\* ------------------------------------------------------------ LocateBlocks
\* The walk that admits a block without asking whether a child is a tip of
\* the peer.
RECURSIVE LocateWalkPastPeer(_, _, _)
LocateWalkPastPeer(gs, queue, fs) ==
    IF queue = <<>> THEN {fs}
    ELSE LET cur == Head(queue)
             rest == Tail(queue)
             needRec ==
                 ~(/\ HasChildren(blocks[cur])
                   /\ \E c \in blocks[cur].children : c \notin fs)
             fs1 == fs \cup {cur}
             more == blocks[cur].parents \ fs1
         IN IF cur \in gs.tips \/ ~needRec THEN LocateWalkPastPeer(gs, rest, fs)
            ELSE UNION {LocateWalkPastPeer(gs, rest \o ps, fs1) : ps \in Perms(more)}

\* The walk that never looks again at a block it has passed over: the block
\* is from then on treated like a tip of the peer.
RECURSIVE LocateWalkNoRevisit(_, _, _)
LocateWalkNoRevisit(gs, queue, fs) ==
    IF queue = <<>> THEN {fs}
    ELSE LET cur == Head(queue)
             rest == Tail(queue)
             needRec ==
                 ~(/\ HasChildren(blocks[cur])
                   /\ \E c \in blocks[cur].children : c \in gs.tips \/ c \notin fs)
             fs1 == fs \cup {cur}
             more == blocks[cur].parents \ fs1
         IN IF cur \in gs.tips THEN LocateWalkNoRevisit(gs, rest, fs)
            ELSE IF ~needRec
            THEN LocateWalkNoRevisit([gs EXCEPT !.tips = @ \cup {cur}], rest, fs)
            ELSE UNION {LocateWalkNoRevisit(gs, rest \o ps, fs1) : ps \in Perms(more)}

\* blockdag.go:395-424: the values of fs when the queue is empty, over the
\* orders in which the parents of an admitted block are appended.
RECURSIVE LocateWalk(_, _, _)
LocateWalk(gs, queue, fs) ==
    IF queue = <<>> THEN {fs}
    ELSE LET cur == Head(queue)
             rest == Tail(queue)
             needRec ==
                 ~(/\ HasChildren(blocks[cur])
                   /\ \E c \in blocks[cur].children : c \in gs.tips \/ c \notin fs)
             fs1 == fs \cup {cur}
             more == blocks[cur].parents \ fs1
         IN IF cur \in gs.tips \/ ~needRec THEN LocateWalk(gs, rest, fs)
            ELSE UNION {LocateWalk(gs, rest \o ps, fs1) : ps \in Perms(more)}

\* blockdag.go:387-393: the queue and fs start from our tips.
LocateAdmitted(gs) == UNION {LocateWalk(gs, q, tips) : q \in Perms(tips)}

\* The truncation that lets one hash too many through.
LocateResultOneMore(fs, maxHashes) ==
    LET fsSlice == SortIn(blocks, mainTip, fs)
    IN SubSeq(fsSlice, 1,
              IF Len(fsSlice) < maxHashes + 1 THEN Len(fsSlice) ELSE maxHashes + 1)

\* blockdag.go:426-443
LocateResult(fs, maxHashes) ==
    LET fsSlice == SortIn(blocks, mainTip, fs)
    IN SubSeq(fsSlice, 1, IF Len(fsSlice) < maxHashes THEN Len(fsSlice) ELSE maxHashes)

\* blockdag.go:383-444; GetGraphState panics without a main chain tip.
LocateBlocks(gs, maxHashes) ==
    /\ UNCHANGED <<dagVars, mainTip>>
    /\ IF GetMainChainTip = NoHash
       THEN ret' = [NoRet EXCEPT !.op = "LocateBlocks", !.gs = gs,
                                 !.maxHashes = maxHashes, !.panic = TRUE]
       ELSE IF IsExcellent(gs, GetGraphState)
       THEN ret' = [NoRet EXCEPT !.op = "LocateBlocks", !.gs = gs,
                                 !.maxHashes = maxHashes, !.null = TRUE]
       ELSE \E fs \in LocateAdmitted(gs) :
               ret' = [NoRet EXCEPT !.op = "LocateBlocks", !.gs = gs,
                                    !.maxHashes = maxHashes, !.set = fs,
                                    !.list = LocateResult(fs, maxHashes)]

\* ----------------------------------------------------------------- queries
\* blockdag.go:202-204
HasBlockCall(h) ==
    /\ ret' = [NoRet EXCEPT !.op = "HasBlock", !.h = h, !.bool = HasBlock(h)]
    /\ UNCHANGED <<dagVars, mainTip>>

\* blockdag.go:217-226: the block, or nil
GetBlockCall(h) ==
    /\ ret' = [NoRet EXCEPT !.op = "GetBlock", !.h = h,
                            !.null = ~HasBlock(h),
                            !.res = IF HasBlock(h) THEN blocks[h].hash ELSE NoHash]
    /\ UNCHANGED <<dagVars, mainTip>>

\* blockdag.go:359-361: GetLayer is called on what GetBlock returns, and a
\* method call on a nil interface panics.
GetLayer(h) ==
    /\ ret' = IF HasBlock(h)
              THEN [NoRet EXCEPT !.op = "GetLayer", !.h = h, !.num = blocks[h].layer]
              ELSE [NoRet EXCEPT !.op = "GetLayer", !.h = h, !.panic = TRUE]
    /\ UNCHANGED <<dagVars, mainTip>>

\* IBlockDAG.GetBlockByOrder: the strategy answers with the block it gave this
\* order, or with nil to leave the answer to the framework.
StrategyGetBlockByOrder(order) ==
    {NoHash} \cup {h \in PastOrSelf(blocks, mainTip) : GetOrder(h) = order}

\* blockdag.go:284-293: nothing writes bd.order, so len(bd.order) is 0 and the
\* framework's own answer is nil for every order.
GetBlockByOrder(order) ==
    {IF result # NoHash THEN result ELSE NoHash :
        result \in StrategyGetBlockByOrder(order)}

GetBlockByOrderCall(order) ==
    /\ \E result \in GetBlockByOrder(order) :
          ret' = [NoRet EXCEPT !.op = "GetBlockByOrder", !.order = order,
                               !.res = result, !.null = (result = NoHash)]
    /\ UNCHANGED <<dagVars, mainTip>>

\* blockdag.go:309-324
GetPrevious(h) ==
    IF h = NoHash THEN {NoHash}
    ELSE IF h = genesis THEN {NoHash}
    ELSE IF ~HasBlock(h) THEN {NoHash}
    ELSE IF GetOrder(h) = 0 THEN {NoHash}
    ELSE GetBlockByOrder(GetOrder(h) - 1)

GetPreviousCall(h) ==
    /\ \E result \in GetPrevious(h) :
          ret' = [NoRet EXCEPT !.op = "GetPrevious", !.h = h,
                               !.res = result, !.null = (result = NoHash)]
    /\ UNCHANGED <<dagVars, mainTip>>

\* sort.Sort(BlockSlice) of a slice of blocks: x goes before the first
\* element that is not less than it.
RECURSIVE InsertBlock(_, _)
InsertBlock(s, x) ==
    IF s = <<>> THEN <<x>>
    ELSE IF LessIn(blocks, mainTip, Head(s), x)
    THEN <<Head(s)>> \o InsertBlock(Tail(s), x)
    ELSE <<x>> \o s

RECURSIVE SortSlice(_)
SortSlice(s) == IF s = <<>> THEN <<>> ELSE InsertBlock(SortSlice(Tail(s)), Head(s))

\* blockdag.go:505-510: the blocks of the hashes GetBlock finds
RECURSIVE KnownOf(_)
KnownOf(src) ==
    IF src = <<>> THEN <<>>
    ELSE (IF HasBlock(Head(src)) THEN <<Head(src)>> ELSE <<>>) \o KnownOf(Tail(src))

\* blockdag.go:501-520
SortBlock(src) == IF Len(src) <= 1 THEN src ELSE SortSlice(KnownOf(src))

SortBlockCall(src) ==
    /\ ret' = [NoRet EXCEPT !.op = "SortBlock", !.src = src, !.list = SortBlock(src)]
    /\ UNCHANGED <<dagVars, mainTip>>

\* blockdag.go:536-555: the values the loop may return from this queue, over
\* the orders in which the children of a block are appended.
RECURSIVE ConfirmationsWalk(_)
ConfirmationsWalk(queue) ==
    IF queue = <<>> THEN {0}
    ELSE LET cur == Head(queue) IN
         IF IsOnMainChain(cur) THEN {1 + GetHeight(mainTip) - GetHeight(cur)}
         ELSE IF ~HasChildren(blocks[cur]) THEN {0}
         ELSE UNION {ConfirmationsWalk(Tail(queue) \o cs) :
                        cs \in Perms(blocks[cur].children)}

\* blockdag.go:523-556
GetConfirmations(h) ==
    IF ~HasBlock(h) THEN {0}
    ELSE IF IsOnMainChain(h) THEN {GetHeight(mainTip) - GetHeight(h)}
    ELSE IF ~HasChildren(blocks[h]) THEN {0}
    ELSE ConfirmationsWalk(<<h>>)

GetConfirmationsCall(h) ==
    /\ \E n \in GetConfirmations(h) :
          ret' = [NoRet EXCEPT !.op = "GetConfirmations", !.h = h, !.num = n]
    /\ UNCHANGED <<dagVars, mainTip>>

\* ------------------------------------------------- traversals, step by step
\* The traversals again, one loop iteration or one call at a time.  A call in
\* progress has ret.pc = "run"; ret.stack holds the frames of a recursion (the
\* keys its range loop has still to visit), ret.queue the queue of a loop.

\* the number of iterations made so far, counted up to MaxSteps
Bump(r) == [r EXCEPT !.steps = IF @ < MaxSteps THEN @ + 1 ELSE @]

Frame(kind, ks) == [kind |-> kind, ks |-> ks]

\* blockdag.go:328-332: GetFutureSet(fs, block h) is entered
GetFutureSetEnter(r, h) ==
    IF blocks[h].children = {} THEN {r}
    ELSE {[r EXCEPT !.stack = <<Frame("children", ks)>> \o @] :
             ks \in Perms(blocks[h].children)}

\* blockdag.go:333-338: one iteration of the loop of the innermost GetFutureSet
GetFutureSetIter(r) ==
    LET top == Head(r.stack)
        rest == Tail(r.stack)
    IN IF top.ks = <<>> THEN {[r EXCEPT !.stack = rest]}
       ELSE LET k == Head(top.ks)
                r1 == [r EXCEPT !.stack = <<Frame("children", Tail(top.ks))>> \o rest]
            IN IF k \in r.set THEN {r1}
               ELSE GetFutureSetEnter([r1 EXCEPT !.set = @ \cup {k}], k)

\* recAnticone without the test for b itself.
recAnticoneEnterNoSelf(r, h) ==
    LET node == blocks[h]
        needRecursion ==
            \/ node.children = {}
            \/ isVirtualTip(r.h, r.set, r.anticone, node.children)
        r1 == [r EXCEPT !.anticone = IF h \notin r.set THEN @ \cup {h} ELSE @]
    IN IF ~needRecursion THEN {r}
       ELSE IF node.parents = {}
       THEN {[r1 EXCEPT !.panic = TRUE, !.stack = <<>>]}
       ELSE {[r1 EXCEPT !.stack = <<Frame("parents", ks)>> \o @] :
                ks \in Perms(node.parents)}

\* blockdag.go:460-483: recAnticone(b, futureSet, anticone, h) is entered
recAnticoneEnter(r, h) ==
    IF h = r.h THEN {r}
    ELSE LET node == blocks[h]
             needRecursion ==
                 \/ node.children = {}
                 \/ isVirtualTip(r.h, r.set, r.anticone, node.children)
             r1 == [r EXCEPT !.anticone = IF h \notin r.set THEN @ \cup {h} ELSE @]
         IN IF ~needRecursion THEN {r}
            ELSE IF node.parents = {}
            THEN {[r1 EXCEPT !.panic = TRUE, !.stack = <<>>]}
            ELSE {[r1 EXCEPT !.stack = <<Frame("parents", ks)>> \o @] :
                     ks \in Perms(node.parents)}

\* blockdag.go:479-481, 490-492: one iteration of the innermost loop that
\* calls recAnticone, over the parents of a block or over the tips
recAnticoneIter(r) ==
    LET top == Head(r.stack)
        rest == Tail(r.stack)
    IN IF top.ks = <<>> THEN {[r EXCEPT !.stack = rest]}
       ELSE recAnticoneEnter(
                [r EXCEPT !.stack = <<Frame(top.kind, Tail(top.ks))>> \o rest],
                Head(top.ks))

\* the call returns when its last frame is gone (blockdag.go:493-497)
WalkFinish(r) ==
    IF r.stack # <<>> THEN r
    ELSE [r EXCEPT !.pc = "done",
                   !.anticone = IF r.panic THEN @ ELSE @ \ r.exclude]

GetFutureSetStart(h) ==
    /\ \E r \in GetFutureSetEnter(
                 [NoRet EXCEPT !.op = "GetFutureSet", !.h = h, !.pc = "run"], h) :
          ret' = WalkFinish(r)
    /\ UNCHANGED <<dagVars, mainTip>>

GetFutureSetStep ==
    /\ ret.pc = "run"
    /\ ret.op \in {"GetFutureSet", "GetAnticone"}
    /\ Head(ret.stack).kind = "children"
    /\ \E r \in GetFutureSetIter(ret) : ret' = WalkFinish(Bump(r))
    /\ UNCHANGED <<dagVars, mainTip>>

\* blockdag.go:487-492: the future set first, then the loop over the tips
GetAnticoneStart(b, exclude) ==
    /\ \E ts \in Perms(tips) :
          \E r \in GetFutureSetEnter(
                    [NoRet EXCEPT !.op = "GetAnticone", !.h = b, !.exclude = exclude,
                                  !.pc = "run", !.stack = <<Frame("tips", ts)>>], b) :
             ret' = r
    /\ UNCHANGED <<dagVars, mainTip>>

recAnticoneStep ==
    /\ ret.pc = "run"
    /\ ret.op = "GetAnticone"
    /\ Head(ret.stack).kind \in {"tips", "parents"}
    /\ \E r \in recAnticoneIter(ret) : ret' = WalkFinish(Bump(r))
    /\ UNCHANGED <<dagVars, mainTip>>

\* blockdag.go:383-393
LocateBlocksStart(gs, maxHashes) ==
    /\ UNCHANGED <<dagVars, mainTip>>
    /\ LET r == [NoRet EXCEPT !.op = "LocateBlocks", !.gs = gs, !.maxHashes = maxHashes]
       IN IF GetMainChainTip = NoHash THEN ret' = [r EXCEPT !.panic = TRUE]
          ELSE IF IsExcellent(gs, GetGraphState) THEN ret' = [r EXCEPT !.null = TRUE]
          ELSE \E q \in Perms(tips) :
                  ret' = [r EXCEPT !.pc = "run", !.queue = q, !.set = tips]

\* The loop body that puts a peer tip back at the end of the queue.
LocateIterRequeue(r) ==
    LET cur == Head(r.queue)
        rest == Tail(r.queue)
        needRec ==
            ~(/\ HasChildren(blocks[cur])
              /\ \E c \in blocks[cur].children : c \in r.gs.tips \/ c \notin r.set)
        fs1 == r.set \cup {cur}
    IN IF cur \in r.gs.tips THEN {[r EXCEPT !.queue = rest \o <<cur>>]}
       ELSE IF ~needRec THEN {[r EXCEPT !.queue = rest]}
       ELSE {[r EXCEPT !.queue = rest \o ps, !.set = fs1] :
                ps \in Perms(blocks[cur].parents \ fs1)}

\* blockdag.go:395-424: one iteration of the loop over the queue
LocateIter(r) ==
    LET cur == Head(r.queue)
        rest == Tail(r.queue)
        needRec ==
            ~(/\ HasChildren(blocks[cur])
              /\ \E c \in blocks[cur].children : c \in r.gs.tips \/ c \notin r.set)
        fs1 == r.set \cup {cur}
    IN IF cur \in r.gs.tips THEN {[r EXCEPT !.queue = rest]}
       ELSE IF ~needRec THEN {[r EXCEPT !.queue = rest]}
       ELSE {[r EXCEPT !.queue = rest \o ps, !.set = fs1] :
                ps \in Perms(blocks[cur].parents \ fs1)}

\* blockdag.go:426-444: the loop is left when the queue is empty
LocateFinish(r) ==
    IF r.queue # <<>> THEN r
    ELSE [r EXCEPT !.pc = "done", !.list = LocateResult(r.set, r.maxHashes)]

LocateBlocksStep ==
    /\ ret.pc = "run"
    /\ ret.op = "LocateBlocks"
    /\ \E r \in LocateIter(ret) : ret' = LocateFinish(Bump(r))
    /\ UNCHANGED <<dagVars, mainTip>>

\* blockdag.go:523-538
GetConfirmationsStart(h) ==
    /\ UNCHANGED <<dagVars, mainTip>>
    /\ LET r == [NoRet EXCEPT !.op = "GetConfirmations", !.h = h]
       IN IF ~HasBlock(h) THEN ret' = r
          ELSE IF IsOnMainChain(h)
          THEN ret' = [r EXCEPT !.num = GetHeight(mainTip) - GetHeight(h)]
          ELSE IF ~HasChildren(blocks[h]) THEN ret' = r
          ELSE ret' = [r EXCEPT !.pc = "run", !.queue = <<h>>]

\* blockdag.go:540-555: one iteration of the loop over the queue
ConfirmationsIter(r) ==
    LET cur == Head(r.queue)
        rest == Tail(r.queue)
    IN IF IsOnMainChain(cur)
       THEN {[r EXCEPT !.pc = "done",
                       !.num = 1 + GetHeight(mainTip) - GetHeight(cur)]}
       ELSE IF ~HasChildren(blocks[cur]) THEN {[r EXCEPT !.pc = "done"]}
       ELSE {[r EXCEPT !.queue = rest \o cs] : cs \in Perms(blocks[cur].children)}

GetConfirmationsStep ==
    /\ ret.pc = "run"
    /\ ret.op = "GetConfirmations"
    /\ \E r \in ConfirmationsIter(ret) :
          ret' = Bump(IF r.queue = <<>> THEN [r EXCEPT !.pc = "done"] ELSE r)
    /\ UNCHANGED <<dagVars, mainTip>>

\* ------------------------------------------------------------------ inputs
\* Hashes are opaque: a new block takes the largest unused hash.
InputHashes ==
    DOMAIN blocks \cup
        (IF Hashes \ DOMAIN blocks = {} THEN {}
         ELSE {CHOOSE h \in Hashes \ DOMAIN blocks :
                   \A g \in Hashes \ DOMAIN blocks : g <= h})

DataInputs ==
    {NilData} \cup
        {BlockData(h, ps, t) : h \in InputHashes,
                               ps \in SeqsUpTo(Hashes, MaxParents),
                               t \in 0..MaxTime}

\* The graph states a peer may send, and our own.
PeerStates ==
    {[tips |-> T, layer |-> l, total |-> n, mainHeight |-> m] :
        T \in {S \in SUBSET Hashes : Cardinality(S) <= MaxPeerTips},
        l \in {0, 1}, n \in {1, MaxBlocks}, m \in {0, 1}}
    \cup (IF GetMainChainTip = NoHash THEN {} ELSE {GetGraphState})

ExcludeInputs == {S \in SUBSET Known : Cardinality(S) <= 1}

\* The hashes a query may name: a known one, an unknown one, or nil.
QueryHashes == InputHashes \cup {NoHash}

SortInputs == SeqsUpTo(QueryHashes, MaxSortLen)

\* ----------------------------------------------------------- specification
Init ==
    /\ blocks = [h \in {} |-> NewBlock(0, NoHash)]
    /\ genesis = NoHash
    /\ blockTotal = 0
    /\ tips = {}
    /\ lastTime \in 0..MaxTime
    /\ instance = phantom
    /\ mainTip = NoHash
    /\ ret = NoRet

\* The BlockDAG before Init: the zero value of the struct.
InitZero ==
    /\ blocks = [h \in {} |-> NewBlock(0, NoHash)]
    /\ genesis = NoHash
    /\ blockTotal = 0
    /\ tips = {}
    /\ lastTime = 0
    /\ instance = NoInstance
    /\ mainTip = NoHash
    /\ ret = NoRet

\* The dagType strings a caller may pass: the four names and two others.
DagTypeInputs == {phantom, phantom_v2, conflux, spectre, "", "ghostdag"}

\* The framework is not synchronized and has a single caller: a call is made
\* when the result of the previous one has been taken.
Idle == ret.op = "none"

DoAddBlock == Idle /\ \E b \in DataInputs : AddBlock(b)

DoGetFutureSet == Idle /\ \E h \in DOMAIN blocks : GetFutureSet(h)

DoGetAnticone ==
    Idle /\ \E b \in DOMAIN blocks : \E exclude \in ExcludeInputs : GetAnticone(b, exclude)

DoLocateBlocks ==
    Idle /\ \E gs \in PeerStates : \E maxHashes \in 0..MaxBlocks :
                LocateBlocks(gs, maxHashes)

DoGetGraphState == Idle /\ GetGraphStateCall

DoHasBlock == Idle /\ \E h \in QueryHashes : HasBlockCall(h)

DoGetBlock == Idle /\ \E h \in QueryHashes : GetBlockCall(h)

DoGetLayer == Idle /\ \E h \in QueryHashes : GetLayer(h)

DoGetBlockByOrder == Idle /\ \E order \in 0..MaxBlocks : GetBlockByOrderCall(order)

DoGetPrevious == Idle /\ \E h \in QueryHashes : GetPreviousCall(h)

DoSortBlock == Idle /\ \E src \in SortInputs : SortBlockCall(src)

DoGetConfirmations == Idle /\ \E h \in QueryHashes : GetConfirmationsCall(h)

\* Init is invoked at the beginning: while no strategy is bound.
DoInit ==
    /\ Idle
    /\ instance = NoInstance
    /\ \E dagType \in DagTypeInputs : \E now \in 0..MaxTime : InitCall(dagType, now)

\* The caller takes the result of its call.
Return ==
    /\ ~Idle
    /\ ret.pc = "done"
    /\ ret' = NoRet
    /\ UNCHANGED <<dagVars, mainTip>>

Next ==
    \/ DoAddBlock
    \/ DoGetFutureSet
    \/ DoGetAnticone
    \/ DoLocateBlocks
    \/ DoGetGraphState
    \/ DoHasBlock
    \/ DoGetBlock
    \/ DoGetLayer
    \/ DoGetBlockByOrder
    \/ DoGetPrevious
    \/ DoSortBlock
    \/ DoGetConfirmations
    \/ Return

Spec == Init /\ [][Next]_vars

\* The blocks AddBlock accepts: a fresh hash over known parents.
AcceptedInputs ==
    {b \in DataInputs : ~b.isNil /\ b.timestamp = 0 /\ ~Rejected(b)
                          /\ (blockTotal = 0 => b.parents = <<>>)}

\* The peer states that let the walk of LocateBlocks run.
WalkPeerStates ==
    {gs \in PeerStates : gs.layer = 0 /\ gs.total = 1 /\ gs.mainHeight = 0}
    \cup (IF GetMainChainTip = NoHash THEN {} ELSE {GetGraphState})

DoAddAccepted == Idle /\ \E b \in AcceptedInputs : AddBlock(b)

DoGetFutureSetStart == Idle /\ \E h \in DOMAIN blocks : GetFutureSetStart(h)

DoGetAnticoneStart == Idle /\ \E b \in DOMAIN blocks : GetAnticoneStart(b, {})

DoLocateBlocksStart == Idle /\ \E gs \in WalkPeerStates : LocateBlocksStart(gs, MaxBlocks)

DoGetConfirmationsStart == Idle /\ \E h \in QueryHashes : GetConfirmationsStart(h)

\* The empty DAG of a bound strategy; the traversals do not read lastTime.
InitWalk ==
    /\ blocks = [h \in {} |-> NewBlock(0, NoHash)]
    /\ genesis = NoHash
    /\ blockTotal = 0
    /\ tips = {}
    /\ lastTime = 0
    /\ instance = phantom
    /\ mainTip = NoHash
    /\ ret = NoRet

\* One more iteration of the traversal in progress.
Step ==
    \/ GetFutureSetStep
    \/ recAnticoneStep
    \/ LocateBlocksStep
    \/ GetConfirmationsStep

\* The DAG is built and traversed, the traversals advancing one iteration at
\* a time.  A call runs on its caller's thread and nothing in a traversal
\* blocks or waits, so an iteration that can be made is made.
NextWalk ==
    \/ DoAddAccepted
    \/ DoGetFutureSetStart
    \/ DoGetAnticoneStart
    \/ DoLocateBlocksStart
    \/ DoGetConfirmationsStart
    \/ GetFutureSetStep
    \/ recAnticoneStep
    \/ LocateBlocksStep
    \/ GetConfirmationsStep
    \/ Return

SpecWalk == InitWalk /\ [][NextWalk]_vars /\ WF_vars(Step)

\* The block that makes one more tip: the genesis first, then a child of the
\* genesis, each with a fresh hash.
TipData ==
    BlockData(blockTotal + 1, IF blockTotal = 0 THEN <<>> ELSE <<genesis>>, 0)

DoAddTip == Idle /\ blockTotal <= MaxTips + 1 /\ AddBlock(TipData)

\* The DAG that grows in width only.
NextTips ==
    \/ DoAddTip
    \/ Return

SpecTips == Init /\ [][NextTips]_vars

\* The life of a BlockDAG from its construction: Init, then blocks are added.
NextInit ==
    \/ DoInit
    \/ DoAddBlock
    \/ Return

SpecInit == InitZero /\ [][NextInit]_vars

\* ================================================================== claims

\* The strict ancestors of h: the blocks reached by one or more parent edges.
AncestorsOf(h) == PastClosure(blocks, blocks[h].parents \cap Known)

RECURSIVE FutureClosure(_)
FutureClosure(S) ==
    LET T == S \cup (UNION {blocks[h].children : h \in S} \cap Known)
    IN IF T = S THEN S ELSE FutureClosure(T)

\* The strict descendants of h: the blocks reached by one or more child edges.
DescendantsOf(h) == FutureClosure(blocks[h].children \cap Known)

\* The call whose result is held is an accepted AddBlock.
Accepted == ret.op = "AddBlock" /\ ~ret.null /\ ~ret.panic

\* C1: every recorded parent is a block of the map, and p is a parent of c
\* exactly when c is a child of p (children name blocks of the map only).
C1_EdgesClosed ==
    /\ \A c \in Known : blocks[c].parents \subseteq Known
    /\ \A p \in Known : \A c \in Hashes :
          (c \in Known /\ p \in blocks[c].parents) <=> (c \in blocks[p].children)

C1_Witness ==
    /\ Accepted
    /\ Cardinality(blocks[ret.data.hash].parents) = 2
    /\ \E p \in Known : Cardinality(blocks[p].children) = 2

\* C2: on a non-empty DAG the tips are exactly the blocks without children.
C2_TipsAreChildless ==
    blockTotal > 0 => tips = {h \in Known : blocks[h].children = {}}

C2_Witness ==
    /\ Accepted
    /\ Cardinality(tips) = 2
    /\ \E h \in Known : blocks[h].children # {} /\ blocks[h].parents # {}

\* C3: the layer of the genesis is 0 and the layer of every other block is one
\* more than the largest layer of its parents.
C3_Layers ==
    \A b \in Known :
        IF b = genesis THEN blocks[b].layer = 0
        ELSE /\ blocks[b].parents # {}
             /\ \E p \in blocks[b].parents : blocks[b].layer = 1 + blocks[p].layer
             /\ \A p \in blocks[b].parents : blocks[p].layer < blocks[b].layer

\* a first parent of layer 0 followed by a deeper one, and the other way round
C3_Witness ==
    /\ Accepted
    /\ LET b == blocks[ret.data.hash] IN
       /\ Len(ret.data.parents) = 2
       /\ ret.data.parents[1] = genesis
       /\ ret.data.parents[2] \in Known \ {genesis}
       /\ b.layer = 2
    /\ \E c \in Known :
          /\ blocks[c].mainParent # genesis
          /\ genesis \in blocks[c].parents
          /\ blocks[c].layer = 2

\* The rejections as the claim lists them.
C4_Rejects(b) ==
    \/ b.isNil
    \/ b.hash \in Known
    \/ /\ blockTotal > 0
       /\ (Len(b.parents) = 0 \/ \E i \in 1..Len(b.parents) : b.parents[i] \notin Known)

\* C4: a rejected AddBlock returns null and changes nothing of the DAG.
C4_RejectedUnchanged ==
    [][(ret'.op = "AddBlock" /\ C4_Rejects(ret'.data))
          => (ret'.null /\ ~ret'.panic /\ UNCHANGED <<dagVars, mainTip>>)]_vars

\* rejected for an unknown second parent while the first one exists
C4_Witness ==
    /\ ret.op = "AddBlock" /\ ret.null
    /\ ~ret.data.isNil /\ ret.data.hash \notin Known
    /\ Len(ret.data.parents) = 2
    /\ ret.data.parents[1] \in Known
    /\ ret.data.parents[2] \notin Known

\* C5: on an empty DAG a block without parents is accepted as the genesis, and
\* a block that declares parents is rejected and the DAG stays empty.
C5_FirstBlock ==
    [][(blockTotal = 0 /\ ret'.op = "AddBlock" /\ ~ret'.data.isNil)
          => IF Len(ret'.data.parents) = 0
             THEN ~ret'.null /\ blockTotal' = 1 /\ genesis' = ret'.data.hash
             ELSE ret'.null /\ blockTotal' = 0 /\ blocks' = blocks]_vars

\* C6: no block is its own ancestor.
C6_Acyclic == \A b \in Known : b \notin AncestorsOf(b)

C6_Witness ==
    /\ Accepted
    /\ \E b \in Known : Cardinality(AncestorsOf(b)) = 3 /\ Cardinality(blocks[b].parents) = 2

\* C7: on a non-empty DAG the one block without parents is the genesis, it is
\* the first accepted block, and the genesis field is never changed.
C7_Genesis ==
    /\ [](blockTotal > 0 =>
            /\ {h \in Known : blocks[h].parents = {}} = {genesis}
            /\ blocks[genesis].id = 0)
    /\ [][(blockTotal = 0 /\ blockTotal' > 0) => genesis' = ret'.data.hash]_vars
    /\ [][blockTotal > 0 => genesis' = genesis]_vars

C7_Witness == Accepted /\ blockTotal = 3 /\ ret.data.hash # genesis

\* C8: GetAnticone(b, empty) returns exactly the blocks that are neither b,
\* nor ancestors of b, nor descendants of b, whatever the iteration order.
C8_Anticone ==
    (ret.op = "GetAnticone" /\ ret.exclude = {}) =>
        /\ ~ret.panic
        /\ ret.set = Known \ ({ret.h} \cup AncestorsOf(ret.h) \cup DescendantsOf(ret.h))

\* the anticone of a block with an ancestor, a descendant and two blocks beside it
C8_Witness ==
    /\ ret.op = "GetAnticone" /\ ret.exclude = {}
    /\ Cardinality(ret.set) >= 1
    /\ AncestorsOf(ret.h) # {}
    /\ DescendantsOf(ret.h) # {}
    /\ Cardinality(tips) = 2

\* C9: GetFutureSet on an empty set fills it with exactly the blocks reached
\* from b by one or more child edges, and never with b.
C9_FutureSet ==
    ret.op = "GetFutureSet" =>
        /\ ret.set = DescendantsOf(ret.h)
        /\ ret.h \notin ret.set

\* a diamond: a descendant reached along two paths
C9_Witness ==
    /\ ret.op = "GetFutureSet"
    /\ Cardinality(blocks[ret.h].children) = 2
    /\ \E d \in ret.set : blocks[d].parents = blocks[ret.h].children

\* The blocks the peer has as far as we know: its tips and their ancestors.
C10_PeerHas(gs) == (gs.tips \cup UNION {AncestorsOf(t) : t \in gs.tips \cap Known})

\* C10: every hash LocateBlocks returns is missing at the peer: it is neither
\* a tip of the peer nor an ancestor of one.
C10_LocatedAreMissing ==
    ret.op = "LocateBlocks" =>
        \A i \in 1..Len(ret.list) : ret.list[i] \notin C10_PeerHas(ret.gs)

\* C11: LocateBlocks returns nothing whenever our own graph state is not
\* strictly better than the peer's, in particular when the two are equal.
C11_NotBetterIsEmpty ==
    (ret.op = "LocateBlocks" /\ ~ret.panic /\ ~IsExcellent(GetGraphState, ret.gs))
        => ret.list = <<>>

\* a before b in ascending (order, id) order
C12_Before(a, b) ==
    \/ GetOrder(a) < GetOrder(b)
    \/ GetOrder(a) = GetOrder(b) /\ blocks[a].id < blocks[b].id

\* C12: the list LocateBlocks returns has at most maxHashes entries, no
\* duplicates, ascends in (order, id), and is the first min(maxHashes,
\* |admitted|) blocks of the admitted set in that order.
C12_SortedPrefix ==
    (ret.op = "LocateBlocks" /\ ~ret.panic) =>
        /\ Len(ret.list) <= ret.maxHashes
        /\ ret.null => ret.list = <<>>
        /\ ~ret.null =>
            /\ Len(ret.list) = IF Cardinality(ret.set) < ret.maxHashes
                               THEN Cardinality(ret.set) ELSE ret.maxHashes
            /\ Range(ret.list) \subseteq ret.set
            /\ \A i, j \in 1..Len(ret.list) :
                  i < j => C12_Before(ret.list[i], ret.list[j])
            /\ \A x \in ret.set \ Range(ret.list) :
                  \A i \in 1..Len(ret.list) : C12_Before(ret.list[i], x)

\* a truncated result that leaves out a block inserted before the returned ones
C12_Witness ==
    /\ ret.op = "LocateBlocks" /\ ~ret.null /\ ~ret.panic
    /\ Len(ret.list) = 2
    /\ Cardinality(ret.set) = 3
    /\ \E x \in ret.set \ Range(ret.list) : blocks[x].id < blocks[ret.list[1]].id

\* the step that is an accepted AddBlock
AcceptedStep == ret.op = "none" /\ Accepted'

\* C17: each accepted AddBlock(data) leaves lastTime = max(previous lastTime,
\* data.timestamp); lastTime never decreases, and after every accepted add it
\* is at least the timestamp of the block added, so by monotonicity it stays
\* at or above the timestamp of every block added so far.
C17_LastTime ==
    /\ [][AcceptedStep => lastTime' = Max(lastTime, ret'.data.timestamp)]_vars
    /\ [][lastTime' >= lastTime]_vars
    /\ [](Accepted => lastTime >= ret.data.timestamp)

\* a later block with an older timestamp has been accepted
C17_Witness ==
    /\ Accepted
    /\ blockTotal >= 2
    /\ ret.data.timestamp < lastTime

\* C20: an accepted AddBlock of n removes no block and changes no existing
\* block except that n joins the children of each of its declared parents.
C20_Frame ==
    [][AcceptedStep =>
          \A h \in Known :
             /\ h \in DOMAIN blocks'
             /\ blocks'[h] =
                  [blocks[h] EXCEPT !.children =
                      IF h \in Range(ret'.data.parents)
                      THEN @ \cup {ret'.data.hash} ELSE @]]_vars

\* n was added under two parents, one of which already had a child, next to a
\* block that is not a parent of n and has children
C20_Witness ==
    /\ Accepted
    /\ Len(ret.data.parents) = 2
    /\ Range(ret.data.parents) \subseteq Known \ {ret.data.hash}
    /\ \E p \in Range(ret.data.parents) : Cardinality(blocks[p].children) >= 2
    /\ \E h \in Known \ (Range(ret.data.parents) \cup {ret.data.hash}) :
          blocks[h].children # {}

\* the main-chain blocks among the strict descendants of h
C13_MainDescendants(h) == {m \in DescendantsOf(h) : IsOnMainChain(m)}

\* C13: for a known block h, GetConfirmations(h) is mainHeight - height(h) when
\* h is on the main chain; otherwise it is 0 exactly when h has no main-chain
\* descendant and 1 + mainHeight - height(m) for a main-chain descendant m
\* when there is one, whatever the order in which children are visited.
C13_Confirmations ==
    (ret.op = "GetConfirmations" /\ HasBlock(ret.h)) =>
        IF IsOnMainChain(ret.h)
        THEN ret.num = GetHeight(mainTip) - GetHeight(ret.h)
        ELSE IF C13_MainDescendants(ret.h) = {}
        THEN ret.num = 0
        ELSE \E m \in C13_MainDescendants(ret.h) :
                ret.num = 1 + GetHeight(mainTip) - GetHeight(m)

\* the operations of C14 that take one hash
C14_HashOps == {"HasBlock", "GetBlock", "GetPrevious", "GetLayer", "GetConfirmations"}

\* the call whose result is held missed: its hash or order names no block
C14_Miss ==
    \/ ret.op \in C14_HashOps /\ ret.h \notin Known
    \/ ret.op = "SortBlock" /\ \E i \in 1..Len(ret.src) : ret.src[i] \notin Known
    \/ ret.op = "GetBlockByOrder" /\ ret.order >= blockTotal

\* C14: a query by an unknown hash or an out-of-range order completes with
\* the null, zero or empty sentinel, never panics, and changes no DAG state.
C14_MissesAreSentinels ==
    /\ [](C14_Miss =>
            /\ ~ret.panic
            /\ ret.bool = FALSE /\ ret.res = NoHash /\ ret.num = 0
            /\ ret.op = "GetBlock" => ret.null
            /\ Range(ret.list) \subseteq Known)
    /\ [][(ret.op = "none" /\ ret'.op \in C14_HashOps \cup {"SortBlock", "GetBlockByOrder"})
             => UNCHANGED <<dagVars, mainTip>>]_vars

\* C18: for every input list, of any length, SortBlock returns every known
\* input hash, no unknown hash, in ascending (order, id) order.
C18_SortBlock ==
    ret.op = "SortBlock" =>
        /\ Range(ret.list) = Range(ret.src) \cap Known
        /\ \A i, j \in 1..Len(ret.list) :
              i < j => ~LessIn(blocks, mainTip, ret.list[j], ret.list[i])

\* C15: NewBlockDAG is non-null exactly for the four dagType names, and
\* Init with an unknown dagType returns that null without failing.
C15_InitPropagatesNull ==
    /\ \A dagType \in DagTypeInputs :
          NewBlockDAG(dagType) # NoInstance
              <=> dagType \in {"phantom", "phantom_v2", "conflux", "spectre"}
    /\ ret.op = "Init" =>
          /\ ~ret.panic
          /\ instance = NoInstance
                <=> ret.dagType \notin {"phantom", "phantom_v2", "conflux", "spectre"}

\* C16: after any sequence of AddBlock calls the DAG has at most MaxTips tips.
C16_BoundedTips == Cardinality(tips) <= MaxTips

\* C19: every traversal that is started on a DAG built by AddBlock calls
\* returns, whatever its argument and the peer state, although blocks are
\* visited again.
C19_Terminates == (ret.pc = "run") ~> (ret.pc = "done")

\* a traversal has returned after more iterations than the DAG has blocks
C19_Witness ==
    /\ ret.op \in {"GetAnticone", "LocateBlocks"}
    /\ ret.pc = "done" /\ ~ret.panic
    /\ ret.steps > blockTotal

\* C21: blockTotal is the number of blocks of the map, the ids of the blocks
\* are exactly 0 .. blockTotal-1, an accepted AddBlock gives its block the id
\* blockTotal had before and a rejected one leaves blockTotal alone, and of
\* two different blocks exactly one is before the other in (order, id).
C21_Ids ==
    /\ [](/\ blockTotal = Cardinality(Known)
          /\ {blocks[h].id : h \in Known} = 0..(blockTotal - 1)
          /\ \A a, b \in Known :
                a # b => (LessIn(blocks, mainTip, a, b) <=> ~LessIn(blocks, mainTip, b, a)))
    /\ [][AcceptedStep =>
             /\ blocks'[ret'.data.hash].id = blockTotal
             /\ blockTotal' = blockTotal + 1]_vars
    /\ [][(ret.op = "none" /\ ret'.op = "AddBlock" /\ ret'.null)
             => blockTotal' = blockTotal]_vars

\* a third block has been accepted and two blocks have order 0
C21_Witness ==
    /\ Accepted
    /\ blockTotal = 3
    /\ \E a, b \in Known : a # b /\ GetOrder(a) = 0 /\ GetOrder(b) = 0

\* C22: at no point of GetAnticone(b, exclude) is the parent loop of
\* recAnticone run on a block without parents (the nil parent set of the
\* genesis), and no ancestor of b is ever in the anticone.
C22_GenesisNotIterated ==
    ret.op = "GetAnticone" =>
        /\ ~ret.panic
        /\ ret.anticone \cap AncestorsOf(ret.h) = {}

\* GetAnticone has returned after admitting a child of the genesis, whose
\* parent loop called recAnticone on the genesis
C22_Witness ==
    /\ ret.op = "GetAnticone" /\ ret.pc = "done"
    /\ ret.h # genesis
    /\ \E a \in ret.anticone : genesis \in blocks[a].parents

\* C23: for one DAG state, peer state and maxHashes, LocateBlocks returns the
\* same list for every order in which the tip, children and parent maps are
\* iterated.
C23_OrderIndependent ==
    (ret.op = "LocateBlocks" /\ ~ret.panic /\ ~ret.null) =>
        \A fs \in LocateAdmitted(ret.gs) :
            LocateResult(fs, ret.maxHashes) = ret.list

\* LocateBlocks has admitted a block with two children that is not a tip: in
\* some orders it was dequeued before both children were admitted
C23_Witness ==
    /\ ret.op = "LocateBlocks" /\ ~ret.panic /\ ~ret.null
    /\ Cardinality(tips) >= 2
    /\ \E p \in ret.set \ tips :
          /\ Cardinality(blocks[p].children) >= 2
          /\ p \in Range(ret.list)

\* the blocks with a descendant among the tips of the peer
C24_PeerAncestors(gs) == UNION {AncestorsOf(t) : t \in gs.tips}

C25_GraphState ==
    (ret.op = "GetGraphState" /\ blockTotal > 0) =>
        /\ ~ret.panic
        /\ ret.gs.tips = tips
        /\ ret.gs.total = blockTotal
        /\ \A h \in Known : blocks[h].layer <= ret.gs.layer
        /\ \E h \in Known : blocks[h].layer = ret.gs.layer
        /\ \A h \in Known : blocks[h].layer = ret.gs.layer => h \in tips

\* the graph state of a DAG whose tips lie on different layers
C25_Witness ==
    /\ ret.op = "GetGraphState" /\ ~ret.panic
    /\ \E a, b \in tips : blocks[a].layer < blocks[b].layer

====
